---------------------------- MODULE Spec2Model ----------------------------
(***************************************************************************)
(* A model of package ftp (ftp.go): the io/fs adapter over one FTP        *)
(* session.  Strings are sequences of byte values, so that comparison,    *)
(* path splitting and sorting are computed and not assumed.               *)
(*                                                                         *)
(* The session (jlaffaye/ftp ServerConn and Response) is the environment: *)
(* the listing the server holds is fixed per behaviour (srv), each List   *)
(* or Retr may fail, and a data stream delivers `rem` more bytes and then *)
(* ends for good, by io.EOF or by a transport error.                      *)
(***************************************************************************)
EXTENDS Integers, Sequences, FiniteSets

VARIABLES srv,     \* the listing the session's server answers List with
          op,      \* the adapter call that ran last: [name, path, buf]
          listed,  \* what c.List returned inside that call: [called, entries, err]
          cmds,    \* commands that call issued on the session, in order
          ret,     \* what that call returned to the caller
          file,    \* the *File the caller holds (info + resp)
          logs     \* what that call wrote with log.Printf

vars == <<srv, op, listed, cmds, ret, file, logs>>

---------------------------------------------------------------------------
(* Bounds of the model *)
MaxList == 3     \* longest listing the server returns
MaxBytes == 2    \* longest data stream
MaxBuf == 2      \* largest buffer handed to File.Read
CopyBuf == 2     \* bytes io.Copy asks for per Read while draining

---------------------------------------------------------------------------
(* Bytes and strings *)
Dot == 46        \* '.'
Slash == 47      \* '/'

RECURSIVE StrLess(_, _)
\* Go's < on strings: bytewise lexicographic, a proper prefix is smaller.
StrLess(a, b) ==
  IF b = <<>> THEN FALSE
  ELSE IF a = <<>> THEN TRUE
  ELSE IF Head(a) # Head(b) THEN Head(a) < Head(b)
  ELSE StrLess(Tail(a), Tail(b))

Min(x, y) == IF x < y THEN x ELSE y

\* jlaftp.EntryType
EntryTypeFile == 0
EntryTypeFolder == 1
EntryTypeLink == 2

\* io/fs.FileMode, as the set of the bits that are set: ModeDir is 1<<31,
\* ModeSymlink is 1<<27, a regular file has no type bit.
ModeDir == {31}
ModeSymlink == {27}

\* jlaftp.Entry values the server may report.  Names: "." ".." "a" "a" "A";
\* the two "a" differ in every other field; the last has a Type the protocol
\* client does not document.
Entries ==
  { [Name |-> <<46>>,     Size |-> 0, Type |-> EntryTypeLink,   Time |-> 1],
    [Name |-> <<46, 46>>, Size |-> 0, Type |-> EntryTypeFolder, Time |-> 1],
    [Name |-> <<97>>,     Size |-> 1, Type |-> EntryTypeFile,   Time |-> 2],
    [Name |-> <<97>>,     Size |-> 2, Type |-> EntryTypeFolder, Time |-> 3],
    [Name |-> <<65>>,     Size |-> 3, Type |-> 3,               Time |-> 4] }

NoEntry == [Name |-> <<>>, Size |-> 0, Type |-> EntryTypeFile, Time |-> 0]

Listings == UNION { [1..n -> Entries] : n \in 0..MaxList }

\* Names the caller passes: "", "a", "A", "/a", "a/", "A/../a"
Paths ==
  { <<>>, <<97>>, <<65>>, <<47, 97>>, <<97, 47>>, <<65, 47, 46, 46, 47, 97>> }

---------------------------------------------------------------------------
(* package path, as getEntry uses it *)

\* Index of the last '/' in s, 0 when there is none.
LastSlash(s) ==
  LET I == { i \in 1..Len(s) : s[i] = Slash }
  IN  IF I = {} THEN 0 ELSE CHOOSE i \in I : \A j \in I : j <= i

FirstSlash(s) ==
  LET I == { i \in 1..Len(s) : s[i] = Slash }
  IN  IF I = {} THEN 0 ELSE CHOOSE i \in I : \A j \in I : i <= j

RECURSIVE Elements(_)
\* The '/'-separated elements of s, empty ones included.
Elements(s) ==
  IF FirstSlash(s) = 0 THEN <<s>>
  ELSE <<SubSeq(s, 1, FirstSlash(s) - 1)>>
         \o Elements(SubSeq(s, FirstSlash(s) + 1, Len(s)))

RECURSIVE CleanElems(_, _, _)
\* path.Clean's pass over the elements: drop "" and ".", let ".." remove the
\* element before it, drop ".." at the root, keep leading ".." otherwise.
CleanElems(elems, out, rooted) ==
  IF elems = <<>> THEN out
  ELSE LET e == Head(elems)
           rest == Tail(elems)
       IN  IF e = <<>> \/ e = <<Dot>> THEN CleanElems(rest, out, rooted)
           ELSE IF e = <<Dot, Dot>>
             THEN IF out # <<>> /\ out[Len(out)] # <<Dot, Dot>>
                    THEN CleanElems(rest, SubSeq(out, 1, Len(out) - 1), rooted)
                  ELSE IF rooted THEN CleanElems(rest, out, rooted)
                  ELSE CleanElems(rest, Append(out, e), rooted)
           ELSE CleanElems(rest, Append(out, e), rooted)

RECURSIVE Join(_)
Join(elems) ==
  IF elems = <<>> THEN <<>>
  ELSE IF Len(elems) = 1 THEN elems[1]
  ELSE elems[1] \o <<Slash>> \o Join(Tail(elems))

Clean(p) ==
  IF p = <<>> THEN <<Dot>>
  ELSE LET rooted == p[1] = Slash
           out == CleanElems(Elements(p), <<>>, rooted)
       IN  IF rooted THEN <<Slash>> \o Join(out)
           ELSE IF out = <<>> THEN <<Dot>>
           ELSE Join(out)

\* path.Dir: everything up to the last '/', cleaned.
Dir(p) == Clean(SubSeq(p, 1, LastSlash(p)))

RECURSIVE StripSlashes(_)
StripSlashes(p) ==
  IF p # <<>> /\ p[Len(p)] = Slash THEN StripSlashes(SubSeq(p, 1, Len(p) - 1))
  ELSE p

\* path.Base: the last element, trailing slashes removed first.
Base(p) ==
  IF p = <<>> THEN <<Dot>>
  ELSE LET q == StripSlashes(p)
           r == SubSeq(q, LastSlash(q) + 1, Len(q))
       IN  IF r = <<>> THEN <<Slash>> ELSE r

---------------------------------------------------------------------------
(* Errors: a chain of frames, outermost first; the empty chain is nil *)

Nil == <<>>

Frame(kind, msg, sibs) == [kind |-> kind, msg |-> msg, sibs |-> sibs]

\* What the session fails with, and the io.EOF sentinel.
ErrList == << Frame("session.List", <<>>, <<>>) >>
ErrRetr == << Frame("session.Retr", <<>>, <<>>) >>
ErrRead == << Frame("stream.Read", <<>>, <<>>) >>
ErrClose == << Frame("stream.Close", <<>>, <<>>) >>
EOF == << Frame("io.EOF", <<>>, <<>>) >>

\* errors.Wrap: nil stays nil, otherwise msg goes in front of the cause.
Wrap(err, msg) == IF err = Nil THEN Nil ELSE << Frame("wrap", msg, <<>>) >> \o err

\* errors.Errorf("%s %+v", base, derefed)
Errorf(base, derefed) == << Frame("errorf", base, derefed) >>

\* The innermost error of a chain.
Cause(err) == err[Len(err)]

---------------------------------------------------------------------------
(* fileinfo *)

\* Mode with the EntryTypeLink case lost: a link falls through to the panic.
ModeWithoutLink(e) ==
  CASE e.Type = EntryTypeFile   -> [mode |-> {}, panic |-> FALSE]
    [] e.Type = EntryTypeFolder -> [mode |-> ModeDir, panic |-> FALSE]
    [] OTHER                    -> [mode |-> {}, panic |-> TRUE]

\* fileinfo.Mode: the mode bits, or a panic on a Type it does not know.
Mode(e) ==
  CASE e.Type = EntryTypeFile   -> [mode |-> {}, panic |-> FALSE]
    [] e.Type = EntryTypeFolder -> [mode |-> ModeDir, panic |-> FALSE]
    [] e.Type = EntryTypeLink   -> [mode |-> ModeSymlink, panic |-> FALSE]
    [] OTHER                    -> [mode |-> {}, panic |-> TRUE]

\* fileinfo.IsDir
IsDir(e) == e.Type = EntryTypeFolder

---------------------------------------------------------------------------
(* The session and its data stream *)

\* A command on the session: its argument, the bytes the stream had left
\* unread when it was issued, and the error the session answered with.
Cmd(c, arg, rem, err) == [cmd |-> c, arg |-> arg, rem |-> rem, err |-> err]

\* c.List: the server's listing, or no entries and an error.
SessionList(fail) ==
  IF fail THEN [called |-> TRUE, entries |-> <<>>, err |-> ErrList]
  ELSE [called |-> TRUE, entries |-> srv, err |-> Nil]

NotListed == [called |-> FALSE, entries |-> <<>>, err |-> Nil]

\* resp.Read into a buffer of buf bytes: some of the bytes left, or, with
\* none left, the way the stream ends.
RespRead(rem, term, buf) ==
  IF rem > 0 THEN { [n |-> k, err |-> Nil] : k \in 1..Min(buf, rem) }
  ELSE { [n |-> 0, err |-> IF term = "eof" THEN EOF ELSE ErrRead] }

---------------------------------------------------------------------------
(* File *)

NoFile == [has |-> FALSE, info |-> NoEntry, rem |-> 0, term |-> "eof",
           closed |-> FALSE]

\* File.Read without the io.EOF case: every error is wrapped.
ReadResultWrapAll(n, err) == [n |-> n, err |-> Wrap(err, <<>>)]

\* What File.Read makes of the stream's (n, err).
ReadResult(n, err) ==
  IF err = EOF THEN [n |-> n, err |-> err]
  ELSE IF err # Nil THEN [n |-> n, err |-> Wrap(err, <<>>)]
  ELSE [n |-> n, err |-> Nil]

\* Close without the drain: nothing is read before resp.Close.
CopyNothing(rem, term) == [n |-> 0, rem |-> rem, err |-> Nil, cmds |-> <<>>]

RECURSIVE Copy(_, _)
\* io.Copy(io.Discard, f.resp): Read after Read until the stream ends; io.EOF
\* is success.  Yields the bytes discarded, the bytes left unread, the error
\* and the Reads issued.
Copy(rem, term) ==
  IF rem = 0
    THEN [n |-> 0, rem |-> 0,
          err |-> IF term = "eof" THEN Nil ELSE ErrRead,
          cmds |-> << Cmd("Read", <<>>, 0, IF term = "eof" THEN EOF ELSE ErrRead) >>]
  ELSE LET k == Min(CopyBuf, rem)
           r == Copy(rem - k, term)
       IN  [n |-> k + r.n, rem |-> r.rem, err |-> r.err,
            cmds |-> << Cmd("Read", <<>>, rem, Nil) >> \o r.cmds]

---------------------------------------------------------------------------
(* FS *)

\* ReadDir without the sort: the listing in the order the server sent it.
SortSliceOmitted(entries) == { entries }

\* sort.Slice by Name: the slice reordered so that no entry's Name is less
\* than an earlier one's.  The sort is not stable; entries of equal Name may
\* come out in any order.
SortSlice(entries) ==
  LET n == Len(entries)
      perms == { p \in [1..n -> 1..n] : \A i, j \in 1..n : i # j => p[i] # p[j] }
      ordered(p) == \A i, j \in 1..n :
                      i < j => ~StrLess(entries[p[j]].Name, entries[p[i]].Name)
  IN  { [i \in 1..n |-> entries[p[i]]] : p \in { q \in perms : ordered(q) } }

RECURSIVE SkipDots(_)
\* The loop of ReadDir: every entry but those named "." or "..".
SkipDots(entries) ==
  IF entries = <<>> THEN <<>>
  ELSE IF Head(entries).Name = <<Dot>> \/ Head(entries).Name = <<Dot, Dot>>
    THEN SkipDots(Tail(entries))
  ELSE << Head(entries) >> \o SkipDots(Tail(entries))

\* The scan without its break: the last entry named base wins.
LastMatch(entries, base) ==
  LET I == { i \in 1..Len(entries) : entries[i].Name = base }
  IN  IF I = {} THEN 0 ELSE CHOOSE i \in I : \A j \in I : j <= i

\* The scan comparing names without regard to case (strings.EqualFold).
FirstMatchFold(entries, base) ==
  LET lower(c) == IF c >= 65 /\ c <= 90 THEN c + 32 ELSE c
      fold(n) == [k \in 1..Len(n) |-> lower(n[k])]
      I == { i \in 1..Len(entries) : fold(entries[i].Name) = fold(base) }
  IN  IF I = {} THEN 0 ELSE CHOOSE i \in I : \A j \in I : i <= j

\* The scan of getEntry: index of the first entry named base, 0 when none is.
FirstMatch(entries, base) ==
  LET I == { i \in 1..Len(entries) : entries[i].Name = base }
  IN  IF I = {} THEN 0 ELSE CHOOSE i \in I : \A j \in I : i <= j

\* getEntry, given what c.List(path.Dir(name)) returned.
getEntry(name, lst) ==
  IF lst.err # Nil
    THEN [found |-> FALSE, entry |-> NoEntry, err |-> Wrap(lst.err, Dir(name))]
  ELSE LET i == FirstMatch(lst.entries, Base(name))
       IN  IF i = 0
             THEN [found |-> FALSE, entry |-> NoEntry,
                   err |-> Errorf(Base(name), lst.entries)]
           ELSE [found |-> TRUE, entry |-> lst.entries[i], err |-> Nil]

---------------------------------------------------------------------------
(* State machine.  Callers keep to one operation at a time on the session:
   the FS calls run while the caller holds no *File. *)

NoOp == [name |-> "none", path |-> <<>>, buf |-> 0, info |-> NoEntry]

Call(name, path, buf, info) ==
  [name |-> name, path |-> path, buf |-> buf, info |-> info]

\* A call's results: the error, the fs.FileInfo (hasInfo), the []fs.DirEntry
\* (hasDir), whether a *File came back, Read's n, Mode's bits, IsDir's
\* answer, and whether the call panicked.
NoRet == [err |-> Nil, hasInfo |-> FALSE, info |-> NoEntry, hasDir |-> FALSE,
          dir |-> <<>>, file |-> FALSE, n |-> 0, mode |-> {}, isDir |-> FALSE,
          panic |-> FALSE]

\* A panic ends the process.
crashed == ret.panic

\* The fileinfo values the caller holds.
Held ==
  (IF ret.hasInfo THEN {ret.info} ELSE {})
    \cup { ret.dir[i] : i \in 1..Len(ret.dir) }
    \cup (IF file.has THEN {file.info} ELSE {})

Init ==
  /\ srv \in Listings
  /\ op = NoOp
  /\ listed = NotListed
  /\ cmds = <<>>
  /\ ret = NoRet
  /\ file = NoFile
  /\ logs = <<>>

\* FS.ReadDir(name)
ReadDir ==
  \E name \in Paths, fail \in BOOLEAN :
    LET lst == SessionList(fail)
    IN  /\ ~crashed
        /\ ~file.has
        /\ op' = Call("ReadDir", name, 0, NoEntry)
        /\ listed' = lst
        /\ cmds' = << Cmd("List", name, 0, lst.err) >>
        /\ IF lst.err # Nil
             THEN ret' = [NoRet EXCEPT !.err = Wrap(lst.err, <<>>)]
           ELSE \E sorted \in SortSlice(lst.entries) :
                  ret' = [NoRet EXCEPT !.hasDir = TRUE, !.dir = SkipDots(sorted)]
        /\ logs' = <<>>
        /\ UNCHANGED <<srv, file>>

\* FS.Stat(name)
Stat ==
  \E name \in Paths, fail \in BOOLEAN :
    LET lst == SessionList(fail)
        r == getEntry(name, lst)
    IN  /\ ~crashed
        /\ ~file.has
        /\ op' = Call("Stat", name, 0, NoEntry)
        /\ listed' = lst
        /\ cmds' = << Cmd("List", Dir(name), 0, lst.err) >>
        /\ IF r.err # Nil
             THEN ret' = [NoRet EXCEPT !.err = Wrap(r.err, <<>>)]
           ELSE ret' = [NoRet EXCEPT !.hasInfo = TRUE, !.info = r.entry]
        /\ logs' = <<>>
        /\ UNCHANGED <<srv, file>>

\* Open issuing Retr before it looks at getEntry's error.
OpenRetrFirst ==
  \E name \in Paths, fail \in BOOLEAN :
    LET lst == SessionList(fail)
        r == getEntry(name, lst)
    IN  /\ ~crashed
        /\ ~file.has
        /\ op' = Call("Open", name, 0, NoEntry)
        /\ listed' = lst
        /\ logs' = <<>>
        /\ UNCHANGED srv
        /\ \/ /\ cmds' = << Cmd("List", Dir(name), 0, lst.err),
                            Cmd("Retr", name, 0, ErrRetr) >>
              /\ ret' = [NoRet EXCEPT
                           !.err = Wrap(IF r.err # Nil THEN r.err ELSE ErrRetr, <<>>)]
              /\ UNCHANGED file
           \/ \E rem \in 0..MaxBytes, term \in {"eof", "err"} :
                /\ cmds' = << Cmd("List", Dir(name), 0, lst.err),
                              Cmd("Retr", name, 0, Nil) >>
                /\ IF r.err # Nil
                     THEN /\ ret' = [NoRet EXCEPT !.err = Wrap(r.err, <<>>)]
                          /\ UNCHANGED file
                   ELSE /\ ret' = [NoRet EXCEPT !.file = TRUE]
                        /\ file' = [has |-> TRUE, info |-> r.entry, rem |-> rem,
                                    term |-> term, closed |-> FALSE]

\* FS.Open(name)
Open ==
  \E name \in Paths, fail \in BOOLEAN :
    LET lst == SessionList(fail)
        r == getEntry(name, lst)
    IN  /\ ~crashed
        /\ ~file.has
        /\ op' = Call("Open", name, 0, NoEntry)
        /\ listed' = lst
        /\ logs' = <<>>
        /\ UNCHANGED srv
        /\ IF r.err # Nil
             THEN /\ cmds' = << Cmd("List", Dir(name), 0, lst.err) >>
                  /\ ret' = [NoRet EXCEPT !.err = Wrap(r.err, <<>>)]
                  /\ UNCHANGED file
           ELSE \/ /\ cmds' = << Cmd("List", Dir(name), 0, Nil),
                                 Cmd("Retr", name, 0, ErrRetr) >>
                   /\ ret' = [NoRet EXCEPT !.err = Wrap(ErrRetr, <<>>)]
                   /\ UNCHANGED file
                \/ \E rem \in 0..MaxBytes, term \in {"eof", "err"} :
                     /\ cmds' = << Cmd("List", Dir(name), 0, Nil),
                                   Cmd("Retr", name, 0, Nil) >>
                     /\ ret' = [NoRet EXCEPT !.file = TRUE]
                     /\ file' = [has |-> TRUE, info |-> r.entry, rem |-> rem,
                                 term |-> term, closed |-> FALSE]

\* File.Stat()
FileStat ==
  /\ ~crashed
  /\ file.has
  /\ op' = Call("File.Stat", <<>>, 0, NoEntry)
  /\ listed' = NotListed
  /\ cmds' = <<>>
  /\ ret' = [NoRet EXCEPT !.hasInfo = TRUE, !.info = file.info]
  /\ logs' = <<>>
  /\ UNCHANGED <<srv, file>>

\* File.Read(b), len(b) = buf, on a handle that is not closed.
Read ==
  \E buf \in 1..MaxBuf :
    \E u \in RespRead(file.rem, file.term, buf) :
      /\ ~crashed
      /\ file.has /\ ~file.closed
      /\ op' = Call("Read", <<>>, buf, NoEntry)
      /\ listed' = NotListed
      /\ cmds' = << Cmd("Read", <<>>, file.rem, u.err) >>
      /\ ret' = [NoRet EXCEPT !.n = ReadResult(u.n, u.err).n,
                              !.err = ReadResult(u.n, u.err).err]
      /\ file' = [file EXCEPT !.rem = file.rem - u.n]
      /\ logs' = <<>>
      /\ UNCHANGED srv

\* File.Close() on a handle that is not closed.  resp.Close marks the stream
\* closed whether or not it reports an error.
Close ==
  \E closeFail \in BOOLEAN :
    LET d == Copy(file.rem, file.term)
    IN  /\ ~crashed
        /\ file.has /\ ~file.closed
        /\ op' = Call("Close", <<>>, 0, NoEntry)
        /\ listed' = NotListed
        /\ UNCHANGED srv
        /\ IF d.err # Nil
             THEN /\ cmds' = d.cmds
                  /\ ret' = [NoRet EXCEPT !.err = Wrap(d.err, <<>>)]
                  /\ file' = [file EXCEPT !.rem = d.rem]
                  /\ logs' = <<>>
           ELSE /\ cmds' = d.cmds \o << Cmd("Close", <<>>, d.rem,
                                             IF closeFail THEN ErrClose ELSE Nil) >>
                /\ file' = [file EXCEPT !.rem = d.rem, !.closed = TRUE]
                /\ IF closeFail
                     THEN /\ logs' = << ErrClose >>
                          /\ ret' = [NoRet EXCEPT !.err = Wrap(ErrClose, <<>>)]
                   ELSE /\ logs' = <<>>
                        /\ ret' = NoRet

\* fileinfo.Mode() of a fileinfo the caller holds
InfoMode ==
  \E e \in Held :
    /\ ~crashed
    /\ op' = Call("Mode", <<>>, 0, e)
    /\ listed' = NotListed
    /\ cmds' = <<>>
    /\ ret' = [NoRet EXCEPT !.mode = Mode(e).mode, !.panic = Mode(e).panic]
    /\ logs' = <<>>
    /\ UNCHANGED <<srv, file>>

\* fileinfo.IsDir() of a fileinfo the caller holds
InfoIsDir ==
  \E e \in Held :
    /\ ~crashed
    /\ op' = Call("IsDir", <<>>, 0, e)
    /\ listed' = NotListed
    /\ cmds' = <<>>
    /\ ret' = [NoRet EXCEPT !.isDir = IsDir(e)]
    /\ logs' = <<>>
    /\ UNCHANGED <<srv, file>>

\* The caller lets go of a *File it has closed.
Release ==
  /\ ~crashed
  /\ file.has /\ file.closed
  /\ file' = NoFile
  /\ UNCHANGED <<srv, op, listed, cmds, ret, logs>>

Next ==
  \/ ReadDir
  \/ Stat
  \/ Open
  \/ FileStat
  \/ Read
  \/ Close
  \/ InfoMode
  \/ InfoIsDir
  \/ Release

Spec == Init /\ [][Next]_vars

---------------------------------------------------------------------------
(* Properties *)

\* Names at i < j in s, compared
Increasing(s) == \A i, j \in 1..Len(s) : i < j => StrLess(s[i].Name, s[j].Name)
NonDecreasing(s) == \A i, j \in 1..Len(s) : i < j => ~StrLess(s[j].Name, s[i].Name)
NoDots(s) == \A i \in 1..Len(s) : s[i].Name # <<Dot>> /\ s[i].Name # <<Dot, Dot>>
Repeats(s) == \E i, j \in 1..Len(s) : i < j /\ s[i].Name = s[j].Name
ReadDirOk == op.name = "ReadDir" /\ ret.err = Nil /\ ret.hasDir

\* C1 as stated: a successful ReadDir returns no entry named "." or ".." and
\* its names are strictly increasing, whatever the listing, repeated names
\* included.
C1_StrictlyOrdered == ReadDirOk => NoDots(ret.dir) /\ Increasing(ret.dir)

\* C1: a successful ReadDir returns no entry named "." or ".." and no name
\* in it is less than an earlier one; the names are strictly increasing when
\* the listing repeats no name.
C1_Ordered ==
  ReadDirOk =>
    /\ NoDots(ret.dir)
    /\ NonDecreasing(ret.dir)
    /\ ~Repeats(listed.entries) => Increasing(ret.dir)

\* ReadDir has returned two or more entries from a listing that held a
\* pseudo-entry, a repeated name, and names out of order.
C1_Witness ==
  /\ ReadDirOk
  /\ Len(ret.dir) >= 2
  /\ ~NoDots(listed.entries)
  /\ Repeats(SkipDots(listed.entries))
  /\ ~NonDecreasing(listed.entries)

\* The listing answered with an entry whose Name is exactly name's base.
Listed(name) ==
  /\ listed.called
  /\ listed.err = Nil
  /\ \E i \in 1..Len(listed.entries) : listed.entries[i].Name = Base(name)

\* The one List the resolve step issues.
ListsParent(name) ==
  /\ cmds # <<>>
  /\ cmds[1].cmd = "List"
  /\ cmds[1].arg = Dir(name)
  /\ \A i \in 2..Len(cmds) : cmds[i].cmd # "List"

\* C2: Stat(p) succeeds exactly when List(Dir(p)) answered with an entry
\* named Base(p), byte for byte; on success the info returned has that name,
\* and otherwise Stat returns an error and no info.
C2_StatIffListed ==
  op.name = "Stat" =>
    /\ ListsParent(op.path)
    /\ ret.err = Nil <=> Listed(op.path)
    /\ ret.err = Nil => ret.hasInfo /\ ret.info.Name = Base(op.path)
    /\ ret.err # Nil => ~ret.hasInfo /\ ret.info = NoEntry

\* Stat has failed on "a" although the listing held "A".
C2_Witness ==
  /\ op.name = "Stat"
  /\ Base(op.path) = <<97>>
  /\ listed.err = Nil
  /\ \E i \in 1..Len(listed.entries) : listed.entries[i].Name = <<65>>
  /\ ret.err # Nil

\* C3: an Open whose resolve step fails (listing failed, or no entry named
\* Base(p)) returns an error and no *File and issues no Retr; a Retr is only
\* ever the command right after a List that resolved the name.
C3_NoRetrBeforeResolve ==
  op.name = "Open" =>
    /\ ListsParent(op.path)
    /\ ~Listed(op.path) =>
         /\ ret.err # Nil
         /\ ~ret.file
         /\ ~file.has
         /\ \A i \in 1..Len(cmds) : cmds[i].cmd # "Retr"
    /\ \A i \in 1..Len(cmds) :
         cmds[i].cmd = "Retr" => i = 2 /\ Listed(op.path) /\ cmds[i].arg = op.path

\* Open has failed with not-found on a name absent from a non-empty listing.
C3_Witness ==
  /\ op.name = "Open"
  /\ listed.err = Nil
  /\ listed.entries # <<>>
  /\ ~Listed(op.path)
  /\ Cause(ret.err).kind = "errorf"
  /\ Len(cmds) = 1

\* Several entries of the server's listing carry name's base.
Ambiguous(name) ==
  \E i, j \in 1..Len(srv) :
    i < j /\ srv[i].Name = Base(name) /\ srv[j].Name = Base(name) /\ srv[i] # srv[j]

\* The first entry of the server's listing that carries name's base.
FirstNamed(name) ==
  srv[CHOOSE i \in 1..Len(srv) :
        /\ srv[i].Name = Base(name)
        /\ \A j \in 1..(i - 1) : srv[j].Name # Base(name)]

\* C10: when several entries of the listing carry the base name, Stat and
\* Open resolve to the first of them in the order the session listed them
\* (its size, type and time), after exactly one List of the parent.
C10_FirstMatchWins ==
  (op.name \in {"Stat", "Open"} /\ listed.err = Nil /\ Ambiguous(op.path)) =>
    /\ ListsParent(op.path)
    /\ listed.entries = srv
    /\ op.name = "Stat" => ret.err = Nil /\ ret.info = FirstNamed(op.path)
    /\ op.name = "Open" =>
         /\ Len(cmds) = 2 /\ cmds[2].cmd = "Retr"
         /\ ret.err = Nil => ret.file /\ file.info = FirstNamed(op.path)

\* Stat has resolved a name the listing carried twice, the two entries
\* differing.
C10_Witness ==
  /\ op.name = "Stat"
  /\ listed.err = Nil
  /\ Ambiguous(op.path)
  /\ ret.hasInfo

\* Close found the stream already read to its end: its first Read was issued
\* with nothing left and the stream ends by io.EOF.
Consumed == cmds # <<>> /\ cmds[1].cmd = "Read" /\ cmds[1].rem = 0 /\ file.term = "eof"

\* Close begins with a Read of the stream, and resp.Close is never issued
\* with bytes left unread.
DrainsFirst ==
  /\ cmds # <<>>
  /\ cmds[1].cmd = "Read"
  /\ \A i \in 1..Len(cmds) : cmds[i].cmd = "Close" => cmds[i].rem = 0 /\ i = Len(cmds)

\* C4 as stated: Close drains before anything else, never issues resp.Close
\* with bytes unread, and on a stream already consumed the drain reads
\* nothing and Close succeeds.
C4_ConsumedCloseSucceeds ==
  op.name = "Close" =>
    /\ DrainsFirst
    /\ Consumed => Len(cmds) = 2 /\ cmds[2].cmd = "Close" /\ ret.err = Nil

\* C4: Close drains before anything else and never issues resp.Close with
\* bytes unread; on a stream already consumed the drain is one Read of
\* nothing that succeeds, resp.Close follows, and Close succeeds exactly when
\* resp.Close does.
C4_DrainBeforeClose ==
  op.name = "Close" =>
    /\ DrainsFirst
    /\ Consumed =>
         /\ Len(cmds) = 2
         /\ cmds[1].err = EOF
         /\ cmds[2].cmd = "Close"
         /\ ret.err = Nil <=> cmds[2].err = Nil

\* Close has run on a stream the caller had read to its end: one Read of
\* nothing, then resp.Close, and no error.
C4_Witness ==
  /\ op.name = "Close"
  /\ Consumed
  /\ Len(cmds) = 2
  /\ cmds[2].cmd = "Close"
  /\ ret.err = Nil

\* C5: once Close has returned, resp.Close has been issued and the stream is
\* released, whatever the drain did.
C5_CloseAlwaysReleases ==
  op.name = "Close" =>
    /\ \E i \in 1..Len(cmds) : cmds[i].cmd = "Close"
    /\ file.closed

\* C6: a Read with the stream at its end returns (0, io.EOF), the sentinel
\* itself and not a wrapped error, and leaves the handle as it was; a Read
\* after a Read that returned io.EOF returns the same again.
C6_ReadAtEnd ==
  [][ /\ (op'.name = "Read" /\ file.has /\ ~file.closed
            /\ file.rem = 0 /\ file.term = "eof")
         => ret'.n = 0 /\ ret'.err = EOF /\ file' = file
      /\ (op.name = "Read" /\ ret.err = EOF /\ op'.name = "Read")
         => ret' = ret /\ file' = file
    ]_vars

\* A Read has returned (0, io.EOF) on an open handle.
C6_Witness ==
  /\ op.name = "Read"
  /\ ret.n = 0
  /\ ret.err = EOF
  /\ file.has /\ ~file.closed /\ file.rem = 0

\* C7: Mode gives no type bit for a file, ModeDir for a directory and
\* ModeSymlink for a link, and panics exactly on a Type outside these three;
\* IsDir is true for a directory and false for a file or a link.
C7_ModeTable ==
  /\ op.name = "Mode" =>
       /\ op.info.Type = EntryTypeFile => ret.mode = {} /\ ~ret.panic
       /\ op.info.Type = EntryTypeFolder => ret.mode = ModeDir /\ ~ret.panic
       /\ op.info.Type = EntryTypeLink => ret.mode = ModeSymlink /\ ~ret.panic
       /\ ret.panic <=>
            op.info.Type \notin {EntryTypeFile, EntryTypeFolder, EntryTypeLink}
  /\ op.name = "IsDir" =>
       /\ ~ret.panic
       /\ ret.isDir <=> op.info.Type = EntryTypeFolder

\* Mode has been taken of a link.
C7_Witness ==
  /\ op.name = "Mode"
  /\ op.info.Type = EntryTypeLink
  /\ ret.mode = ModeSymlink

\* Some wrap of the chain carries path p as its message.
HasContext(err, p) == \E i \in 1..Len(err) : err[i].kind = "wrap" /\ err[i].msg = p

\* C8: when the session's List fails, ReadDir(p) returns no entries and an
\* error that carries p, Stat and Open return an error that carries Dir(p),
\* and the session's error is the cause at the end of the chain.
C8_ListErrorCarriesPath ==
  (listed.called /\ listed.err # Nil) =>
    /\ ret.err # Nil
    /\ Cause(ret.err) = Cause(listed.err)
    /\ ~ret.hasDir /\ ret.dir = <<>> /\ ~ret.hasInfo /\ ~ret.file
    /\ op.name = "ReadDir" => HasContext(ret.err, op.path)
    /\ op.name \in {"Stat", "Open"} => HasContext(ret.err, Dir(op.path))

\* C9: a Close that returns an error, from the drain or from resp.Close,
\* returns it wrapped and has written a log record.
C9_CloseErrorLogged ==
  (op.name = "Close" /\ ret.err # Nil) =>
    /\ ret.err[1].kind = "wrap"
    /\ Len(logs) >= 1

===========================================================================
